---- MODULE Spec2Model ----
(***************************************************************************)
(* scripts/build_search_index.py: the Algolia index builder of the docs    *)
(* repository.  build_indexes walks content/v*, build_index collects the   *)
(* markdown files of one version (truncating the oversized ones in place), *)
(* get_algolia_doc_from_file turns each collected file into an AlgoliaDoc  *)
(* or skips it, and the documents of the version replace the objects of    *)
(* the index ALGOLIA_INDEX-<version>.                                       *)
(*                                                                         *)
(* Text is modelled by TLA+ strings (Len, SubSeq and \o act on them), an   *)
(* Optional[T] by a sequence of length 0 (None) or 1.  A file is its size  *)
(* in bytes (st_size) and its page: what frontmatter.load makes of it.  The *)
(* page holds the front matter and the leading text of the body, which lie *)
(* within the first 100,000 bytes; the bytes after them are counted by     *)
(* st_size alone, so a truncation changes st_size and leaves the page.      *)
(***************************************************************************)
EXTENDS Integers, Sequences, FiniteSets, TLC

VARIABLES
    disk0,      \* the file system when the script starts (never changes)
    disk,       \* the file system now: path -> [st_size, page]
    pending,    \* build_indexes: version directories not yet built
    cur,        \* build_index: the version being built, <<>> between builds
    todo,       \* build_index: files version.rglob has not yielded yet
    results,    \* build_index: the list `results` (line 99)
    k,          \* build_index: position of the generator algolia_docs in results
    docs,       \* build_index: the list `docs` under construction (line 109)
    warnings,   \* the log: one record per logging.warning call
    calls,      \* the remote service: one record per replace_all_objects call
    reads,      \* one record per open() of get_algolia_doc_from_file: file, size then
    failed,     \* an exception left build_indexes: the run is over
    arg,        \* input of the pure function under check (function specifications)
    ret         \* the values the function returned, in order

vars == <<disk0, disk, pending, cur, todo, results, k, docs, warnings, calls,
          reads, failed, arg, ret>>

pipeVars == <<disk0, disk, pending, cur, todo, results, k, docs, warnings, calls,
              reads, failed>>

----------------------------------------------------------------------------
(* Bounds of the model *)

MaxTextLen == 5

MaxSlugLen == 6

MaxFiles == 2

----------------------------------------------------------------------------
(* Strings *)

Char(s, i) == SubSeq(s, i, i)

\* the part of s from position i on (python s[i-1:])
From(s, i) == SubSeq(s, i, Len(s))

\* python: c in s, for a single character c
HasChar(s, c) == \E i \in 1..Len(s) : Char(s, i) = c

\* python: sub in s
Contains(s, sub) ==
    \E i \in 1..(Len(s) - Len(sub) + 1) : SubSeq(s, i, i + Len(sub) - 1) = sub

\* python: s.find(c) + 1 (0 when absent)
IndexOf(s, c) ==
    IF HasChar(s, c)
    THEN CHOOSE i \in 1..Len(s) : Char(s, i) = c /\ \A j \in 1..(i - 1) : Char(s, j) # c
    ELSE 0

\* python: s.rfind(c) + 1 (0 when absent)
LastIndexOf(s, c) ==
    IF HasChar(s, c)
    THEN CHOOSE i \in 1..Len(s) : Char(s, i) = c /\ \A j \in (i + 1)..Len(s) : Char(s, j) # c
    ELSE 0

\* python: s.replace(c, "")
RECURSIVE Remove(_, _)
Remove(s, c) ==
    IF s = "" THEN ""
    ELSE IF Char(s, 1) = c THEN Remove(From(s, 2), c)
    ELSE Char(s, 1) \o Remove(From(s, 2), c)

\* a strip of one leading character only
lstrip_One(s, c) == IF s # "" /\ Char(s, 1) = c THEN From(s, 2) ELSE s

\* python: s.lstrip(c)
RECURSIVE lstrip(_, _)
lstrip(s, c) == IF s # "" /\ Char(s, 1) = c THEN lstrip(From(s, 2), c) ELSE s

\* python: s.split(c); "".split(c) is [""]
RECURSIVE split(_, _)
split(s, c) ==
    LET i == IndexOf(s, c)
    IN IF i = 0 THEN <<s>>
       ELSE <<SubSeq(s, 1, i - 1)>> \o split(From(s, i + 1), c)

\* all strings over alphabet A of length at most n
RECURSIVE Words(_, _)
Words(A, n) ==
    IF n = 0 THEN {""}
    ELSE LET W == Words(A, n - 1) IN W \cup {w \o c : w \in W, c \in A}

----------------------------------------------------------------------------
(* Content cleaning, lines 32 and 52-57 *)

\* a regex without re.DOTALL: "." stops at a newline, so a tag spanning lines stays
RECURSIVE SubNoDotAll(_)
SubNoDotAll(s) ==
    IF s = "" THEN ""
    ELSE LET rest == From(s, 2)
             j == IndexOf(rest, ">")
         IN IF Char(s, 1) = "<" /\ j > 0 /\ ~HasChar(SubSeq(rest, 1, j - 1), "\n")
            THEN SubNoDotAll(From(rest, j + 1))
            ELSE Char(s, 1) \o SubNoDotAll(rest)

\* CONTENT_REGEX.sub("", s, 0): every leftmost, shortest match of <(.*?)> is
\* removed, scanning left to right; with re.DOTALL "." matches a newline too
RECURSIVE CONTENT_REGEX_sub(_)
CONTENT_REGEX_sub(s) ==
    IF s = "" THEN ""
    ELSE LET rest == From(s, 2)
             j == IndexOf(rest, ">")
         IN IF Char(s, 1) = "<" /\ j > 0
            THEN CONTENT_REGEX_sub(From(rest, j + 1))
            ELSE Char(s, 1) \o CONTENT_REGEX_sub(rest)

\* a greedy pattern <(.*)>: one match, from the first "<" to the last ">"
sub_Greedy(s) ==
    LET i == IndexOf(s, "<")
        j == LastIndexOf(s, ">")
    IN IF i > 0 /\ j > i THEN SubSeq(s, 1, i - 1) \o From(s, j + 1) ELSE s

get_page_content_Greedy(content) ==
    Remove(Remove(sub_Greedy(content), "\n"), "#")

get_page_content_NoDotAll(content) ==
    Remove(Remove(SubNoDotAll(content), "\n"), "#")

get_page_content(content) ==
    Remove(Remove(CONTENT_REGEX_sub(content), "\n"), "#")

----------------------------------------------------------------------------
(* Optional values and the module's constants, lines 28-35 *)

None == <<>>

Some(x) == <<x>>

\* os.environ.get("ALGOLIA_INDEX"): the base index name of the deployment
ALGOLIA_INDEX == "DOCS"

EXCLUDED_FILES == {"gdpr-banner", "menu"}

EXCLUDED_DIRS == {"main-concepts"}

\* the size check of line 103 and the argument of f.truncate, line 105
Threshold == 100000

----------------------------------------------------------------------------
(* Paths (pathlib) *)

\* Path.name: the final component
Name(path) == From(path, LastIndexOf(path, "/") + 1)

\* Path.stem: the name without its last suffix; a leading or a trailing dot
\* starts no suffix
Stem(path) ==
    LET name == Name(path)
        i == LastIndexOf(name, ".")
    IN IF 1 < i /\ i < Len(name) THEN SubSeq(name, 1, i - 1) ELSE name

\* the pattern "*.[mM][dD]" on a file name
IsMarkdown(path) ==
    LET name == Name(path)
        n == Len(name)
    IN /\ n >= 3
       /\ Char(name, n - 2) = "."
       /\ Char(name, n - 1) \in {"m", "M"}
       /\ Char(name, n) \in {"d", "D"}

\* the file lies in the directory or below it
IsUnder(path, dir) ==
    /\ Len(path) > Len(dir) + 1
    /\ SubSeq(path, 1, Len(dir) + 1) = dir \o "/"

\* version.rglob("*.[mM][dD]") on the file system fs
rglob(fs, version) == {f \in DOMAIN fs : IsUnder(f, version) /\ IsMarkdown(f)}

\* Path("content").glob("v*") over the directories of the content root
glob_versions(dirs) == {d \in dirs : Char(Name(d), 1) = "v"}

----------------------------------------------------------------------------
(* get_algolia_doc_from_file, lines 60-82 *)

\* page.metadata.get(key)
get(metadata, key) == IF key \in DOMAIN metadata THEN Some(metadata[key]) ELSE None

\* the except branch, lines 80-82: one warning naming the file and the key
KeyError(file, key) ==
    [ret |-> None, log |-> <<[file |-> file, err |-> key]>>, raised |-> FALSE]

\* the constructor call of lines 73-79
AlgoliaDoc(metadata, content) ==
    [objectID |-> metadata["slug"],
     title |-> metadata["title"],
     description |-> get(metadata, "description"),
     categories |-> split(lstrip(metadata["slug"], "/"), "/"),
     content |-> get_page_content(content)]

\* no except clause: the KeyError leaves the function
get_algolia_doc_from_file_Uncaught(file, page) ==
    IF ~page.ok
    THEN [ret |-> None, log |-> <<>>, raised |-> TRUE]
    ELSE IF get(page.metadata, "collate") = Some(TRUE)
    THEN [ret |-> None, log |-> <<>>, raised |-> FALSE]
    ELSE IF {"slug", "title"} \subseteq DOMAIN page.metadata
    THEN [ret |-> Some(AlgoliaDoc(page.metadata, page.content)),
          log |-> <<>>, raised |-> FALSE]
    ELSE [ret |-> None, log |-> <<>>, raised |-> TRUE]

\* the collate test made after the document is built
get_algolia_doc_from_file_LateCollate(file, page) ==
    IF ~page.ok
    THEN [ret |-> None, log |-> <<>>, raised |-> TRUE]
    ELSE IF "slug" \notin DOMAIN page.metadata THEN KeyError(file, "slug")
    ELSE IF "title" \notin DOMAIN page.metadata THEN KeyError(file, "title")
    ELSE IF get(page.metadata, "collate") = Some(TRUE)
    THEN [ret |-> None, log |-> <<>>, raised |-> FALSE]
    ELSE [ret |-> Some(AlgoliaDoc(page.metadata, page.content)),
          log |-> <<>>, raised |-> FALSE]

\* the result of one call: the value returned, what was logged, and whether an
\* exception other than KeyError left the function (frontmatter.load failing)
get_algolia_doc_from_file(file, page) ==
    IF ~page.ok
    THEN [ret |-> None, log |-> <<>>, raised |-> TRUE]
    ELSE IF get(page.metadata, "collate") = Some(TRUE)
    THEN [ret |-> None, log |-> <<>>, raised |-> FALSE]
    ELSE IF "slug" \notin DOMAIN page.metadata THEN KeyError(file, "slug")
    ELSE IF "title" \notin DOMAIN page.metadata THEN KeyError(file, "title")
    ELSE [ret |-> Some(AlgoliaDoc(page.metadata, page.content)),
          log |-> <<>>, raised |-> FALSE]

\* json.loads(doc.json()): the document as a plain mapping, None as null
to_json(doc) ==
    [objectID |-> doc.objectID, title |-> doc.title, description |-> doc.description,
     categories |-> doc.categories, content |-> doc.content]

\* build_algolia_index_name, lines 85-87
build_algolia_index_name(version) == ALGOLIA_INDEX \o "-" \o version

----------------------------------------------------------------------------
(* The file systems the script is run on *)

NoKey == [q \in {} |-> TRUE]

ScenarioBody == "# Hello <span>world</span>\ntext"

\* front matter: every combination of the keys the script requires or tests,
\* and a page with the optional description
Metadatas ==
    {c @@ s @@ t : c \in {NoKey, [collate |-> TRUE], [collate |-> FALSE]},
                   s \in {NoKey, [slug |-> "/docs/intro"]},
                   t \in {NoKey, [title |-> "Intro"]}}
    \cup {[slug |-> "/docs/intro", title |-> "Intro", description |-> "About"]}

\* what frontmatter.load makes of a file; ok = FALSE: it raises
Pages ==
    {[ok |-> TRUE, metadata |-> m, content |-> ScenarioBody] : m \in Metadatas}
    \cup {[ok |-> FALSE, metadata |-> NoKey, content |-> ""]}

\* the directories of the content root
ContentDirs == {"content/v1", "content/v2", "content/images"}

\* the files a run may find, with their sizes in bytes
PoolSize ==
    "content/v1/docs/intro.md" :> 60 @@
    "content/v1/docs/big.MD" :> 250000 @@
    "content/v1/edge.md" :> 100000 @@
    "content/v1/menu.md" :> 100001 @@
    "content/v1/main-concepts/a.md" :> 250000 @@
    "content/v1/notes.txt" :> 250000 @@
    "content/v2/over.md" :> 100001 @@
    "content/v2/sub/gdpr-banner.Md" :> 60 @@
    "content/images/readme.md" :> 250000

\* the pages of the pipeline specification: a valid page with and without a
\* description, one without a title, one flagged collate, and one that does not parse
CorePages ==
    {pg \in Pages :
        \/ ~pg.ok
        \/ pg.metadata \in {[slug |-> "/docs/intro", title |-> "Intro"],
                            [slug |-> "/docs/intro", title |-> "Intro", description |-> "About"],
                            [slug |-> "/docs/intro"],
                            [collate |-> TRUE, slug |-> "/docs/intro", title |-> "Intro"]}}

\* the files of the pool that no rule of the collector excludes
PlainFiles ==
    {"content/v1/docs/intro.md", "content/v1/docs/big.MD", "content/v1/edge.md",
     "content/v2/over.md"}

\* the file systems with at most MaxFiles of the files, each with one of the pages
FileSystems(files, pages) ==
    UNION {[S -> pages] : S \in {T \in SUBSET files : Cardinality(T) <= MaxFiles}}

----------------------------------------------------------------------------
(* build_indexes and build_index, lines 90-128 *)

\* the state when build_indexes is called on a file system
Start(pages) ==
    /\ disk0 = [f \in DOMAIN pages |-> [st_size |-> PoolSize[f], page |-> pages[f]]]
    /\ disk = disk0
    /\ pending = glob_versions(ContentDirs)
    /\ cur = None
    /\ todo = {}
    /\ results = <<>>
    /\ k = 1
    /\ docs = <<>>
    /\ warnings = <<>>
    /\ calls = <<>>
    /\ reads = <<>>
    /\ failed = FALSE
    /\ arg = ""
    /\ ret = <<>>

\* any files of the pool, the pages of the pipeline specification
InitPipe == \E pages \in FileSystems(DOMAIN PoolSize, CorePages) : Start(pages)

\* files the collector keeps, any front matter
InitMeta == \E pages \in FileSystems(PlainFiles, Pages) : Start(pages)

\* a build that shares one list between the versions
new_results_Shared(old) == old

\* line 99: every build_index starts from an empty list
new_results(old) == <<>>

\* a test on the file's name, extension included
is_collected_ByName(file) ==
    /\ Name(file) \notin EXCLUDED_FILES
    /\ ~\E substring \in EXCLUDED_DIRS : Contains(file, substring)

\* lines 101-102: the two exclusion tests
is_collected(file) ==
    /\ Stem(file) \notin EXCLUDED_FILES
    /\ ~\E substring \in EXCLUDED_DIRS : Contains(file, substring)

\* a truncation with no size check before it
is_oversized_Always(st_size) == TRUE

\* line 103
is_oversized(st_size) == st_size > Threshold

\* a truncation that keeps one byte too many
truncate_OffByOne(f, size) == [f EXCEPT !.st_size = size + 1]

\* f.truncate(size), lines 104-105: the file is resized to size bytes
truncate(f, size) == [f EXCEPT !.st_size = size]

\* build_indexes, lines 126-128: the next version directory is built
BuildIndexStart(version) ==
    /\ ~failed /\ cur = None
    /\ version \in pending
    /\ pending' = pending \ {version}
    /\ cur' = Some(version)
    /\ todo' = rglob(disk, version)
    /\ results' = new_results(results)
    /\ k' = 1
    /\ docs' = <<>>
    /\ UNCHANGED <<disk0, disk, warnings, calls, reads, failed, arg, ret>>

\* one iteration of the loop of lines 100-106, on the file rglob yields next
Collect(file) ==
    /\ ~failed /\ cur # None
    /\ file \in todo
    /\ todo' = todo \ {file}
    /\ IF is_collected(file)
       THEN /\ disk' = IF is_oversized(disk[file].st_size)
                       THEN [disk EXCEPT ![file] = truncate(disk[file], Threshold)]
                       ELSE disk
            /\ results' = Append(results, file)
       ELSE UNCHANGED <<disk, results>>
    /\ UNCHANGED <<disk0, pending, cur, k, docs, warnings, calls, reads, failed, arg, ret>>

\* an extraction that starts while files are still being collected
can_extract_Early == cur # None /\ k <= Len(results)

\* lines 108-109 run after the loop of lines 100-106 has ended
can_extract == cur # None /\ todo = {} /\ k <= Len(results)

\* lines 108-109, one file: the generator yields get_algolia_doc_from_file(page),
\* and the comprehension keeps the document if there is one
Extract ==
    /\ ~failed /\ can_extract
    /\ LET file == results[k]
           r == get_algolia_doc_from_file(file, disk[file].page)
       IN /\ reads' = Append(reads, [file |-> file, st_size |-> disk[file].st_size])
          /\ IF r.raised
             THEN /\ failed' = TRUE
                  /\ UNCHANGED <<k, docs, warnings>>
             ELSE /\ failed' = FALSE
                  /\ k' = k + 1
                  /\ docs' = docs \o (IF r.ret = None THEN <<>> ELSE <<to_json(r.ret[1])>>)
                  /\ warnings' = warnings \o r.log
    /\ UNCHANGED <<disk0, disk, pending, cur, todo, results, calls, arg, ret>>

\* lines 113-121 run once the comprehension of line 109 has ended
can_publish == cur # None /\ todo = {} /\ k > Len(results)

\* lines 113-121: the index of the version is replaced, and build_index returns
Publish ==
    /\ ~failed /\ can_publish
    /\ calls' = Append(calls, [index |-> build_algolia_index_name(Name(cur[1])),
                               objects |-> docs, safe |-> FALSE])
    /\ cur' = None
    /\ UNCHANGED <<disk0, disk, pending, todo, results, k, docs, warnings, reads,
                   failed, arg, ret>>

\* lines 113-121: the client, the index or the replace call raises; nothing
\* catches it, and build_indexes ends
PublishFails ==
    /\ ~failed /\ can_publish
    /\ failed' = TRUE
    /\ UNCHANGED <<disk0, disk, pending, cur, todo, results, k, docs, warnings,
                   calls, reads, arg, ret>>

Next ==
    \/ \E version \in pending : BuildIndexStart(version)
    \/ \E file \in todo : Collect(file)
    \/ Extract
    \/ Publish
    \/ PublishFails

Spec == InitPipe /\ [][Next]_vars

SpecMeta == InitMeta /\ [][Next]_vars

\* the script has ended without an exception
Finished == ~failed /\ cur = None /\ pending = {}

----------------------------------------------------------------------------
(* The function specifications leave the pipeline idle *)

PipeIdle ==
    /\ disk0 = <<>> /\ disk = <<>> /\ pending = {} /\ cur = <<>> /\ todo = {}
    /\ results = <<>> /\ k = 1 /\ docs = <<>> /\ warnings = <<>> /\ calls = <<>>
    /\ reads = <<>> /\ failed = FALSE

\* the characters cleaning treats specially, and an ordinary one
TextAlphabet == {"<", ">", "\n", "#", "a"}

InitClean == PipeIdle /\ arg \in Words(TextAlphabet, MaxTextLen) /\ ret = <<>>

\* get_page_content applied to the text, then to its own result
ApplyClean ==
    /\ Len(ret) < 2
    /\ ret' = Append(ret, get_page_content(IF ret = <<>> THEN arg ELSE ret[Len(ret)]))
    /\ UNCHANGED <<pipeVars, arg>>

NextClean == ApplyClean

SpecClean == InitClean /\ [][NextClean]_vars

\* a "<" followed later by a ">"
HasSpan(s) == \E i \in 1..Len(s) : Char(s, i) = "<" /\ HasChar(From(s, i + 1), ">")

\* C7: cleaning is idempotent, and cleaned text holds no angle-bracket span, no
\* newline and no "#"
C7_CleanIdempotent ==
    /\ Len(ret) >= 1 =>
          /\ ~HasSpan(ret[1])
          /\ ~HasChar(ret[1], "\n")
          /\ ~HasChar(ret[1], "#")
    /\ Len(ret) = 2 => ret[2] = ret[1]

\* a text with a tag spanning a newline and a heading marker was cleaned twice
C7_Witness ==
    /\ Len(ret) = 2
    /\ Contains(arg, "<\n>")
    /\ HasChar(arg, "#")
    /\ ret[1] # arg

----------------------------------------------------------------------------
(* The documents of a slug *)

SlugAlphabet == {"/", "a", "b", "c"}

InitDoc == PipeIdle /\ arg \in Words(SlugAlphabet, MaxSlugLen) /\ ret = <<>>

\* get_algolia_doc_from_file on a file whose front matter holds the slug
ApplyDoc ==
    /\ ret = <<>>
    /\ ret' = <<get_algolia_doc_from_file("content/v1/docs/intro.md",
                    [ok |-> TRUE, metadata |-> [slug |-> arg, title |-> "Intro"],
                     content |-> ScenarioBody])>>
    /\ UNCHANGED <<pipeVars, arg>>

NextDoc == ApplyDoc

SpecDoc == InitDoc /\ [][NextDoc]_vars

\* "/".join(parts)
RECURSIVE Join(_)
Join(parts) ==
    IF Len(parts) = 0 THEN ""
    ELSE IF Len(parts) = 1 THEN parts[1]
    ELSE parts[1] \o "/" \o Join(Tail(parts))

\* n path separators
RECURSIVE Slashes(_)
Slashes(n) == IF n = 0 THEN "" ELSE "/" \o Slashes(n - 1)

\* the slug without its first character when that is a path separator
StripOne(slug) == IF slug # "" /\ Char(slug, 1) = "/" THEN From(slug, 2) ELSE slug

\* C8 as stated: categories is the slug with a single leading path separator
\* stripped, split on path separators; objectID is the slug
C8_SingleStrip ==
    ret # <<>> =>
        LET doc == ret[1].ret[1]
        IN /\ doc.objectID = arg
           /\ doc.categories = split(StripOne(arg), "/")

\* C8 amended: categories is the slug with all its leading path separators
\* stripped, split on path separators, in order; objectID is the slug unchanged
C8_AllLeadingStripped ==
    ret # <<>> =>
        LET doc == ret[1].ret[1]
            rest == Join(doc.categories)
        IN /\ doc.objectID = arg
           /\ \E n \in 0..Len(arg) : arg = Slashes(n) \o rest
           /\ rest = "" \/ Char(rest, 1) # "/"
           /\ \A i \in 1..Len(doc.categories) : ~HasChar(doc.categories[i], "/")

\* the slug /a/b/c gave the categories a, b, c
C8_Witness ==
    /\ ret # <<>>
    /\ arg = "/a/b/c"
    /\ ret[1].ret[1].categories = <<"a", "b", "c">>

----------------------------------------------------------------------------
(* Extraction: C1, C2 *)

\* the step is one call of get_algolia_doc_from_file, on results[k]
ExtractStep == reads' # reads

Flagged(page) == page.ok /\ "collate" \in DOMAIN page.metadata /\ page.metadata["collate"] = TRUE

LacksField(page) == page.ok /\ ~({"slug", "title"} \subseteq DOMAIN page.metadata)

\* the call gave no document, logged one warning naming the file, and the batch
\* goes on with the next collected file
SkippedWithWarning ==
    /\ docs' = docs
    /\ Len(warnings') = Len(warnings) + 1
    /\ SubSeq(warnings', 1, Len(warnings)) = warnings
    /\ warnings'[Len(warnings')].file = results[k]
    /\ ~failed' /\ cur' = cur /\ results' = results /\ k' = k + 1

\* C1 as stated: any file whose front matter lacks slug or title gives no
\* document and exactly one warning naming it, and the batch goes on
C1_AnyLackingFileWarns ==
    [][(ExtractStep /\ LacksField(disk[results[k]].page)) => SkippedWithWarning]_vars

\* C1 amended: a file not flagged collate whose front matter lacks slug or title
\* gives no document and exactly one warning naming it, and the batch goes on
C1_UnflaggedLackingFileWarns ==
    [][(ExtractStep /\ LacksField(disk[results[k]].page) /\ ~Flagged(disk[results[k]].page))
          => SkippedWithWarning]_vars

\* a version was published with the document of its second file after its first
\* file, which lacks a field, was skipped with a warning
C1_Witness ==
    /\ cur = None /\ ~failed
    /\ Len(results) = 2 /\ k = 3
    /\ LacksField(disk[results[1]].page)
    /\ warnings = <<[file |-> results[1], err |-> "title"]>>
    /\ Len(docs) = 1
    /\ calls # <<>> /\ calls[Len(calls)].objects = docs

\* C2: a file flagged collate gives no document and no warning, whatever else
\* its front matter holds
C2_FlaggedSilentlySkipped ==
    [][(ExtractStep /\ Flagged(disk[results[k]].page))
          => /\ docs' = docs /\ warnings' = warnings
             /\ ~failed' /\ cur' = cur /\ results' = results /\ k' = k + 1]_vars

\* a flagged file without slug and a flagged file with every field were read, and
\* nothing was logged or published from them
C2_Witness ==
    /\ cur = None /\ ~failed /\ Len(reads) = 2
    /\ Flagged(disk[reads[1].file].page) /\ LacksField(disk[reads[1].file].page)
    /\ Flagged(disk[reads[2].file].page) /\ ~LacksField(disk[reads[2].file].page)
    /\ warnings = <<>>
    /\ calls # <<>> /\ \A i \in 1..Len(calls) : calls[i].objects = <<>>

----------------------------------------------------------------------------
(* The collector: C4, C5, C6 *)

\* the file's stem or path is one the collector must leave out
Excluded(file) ==
    \/ Stem(file) \in {"menu", "gdpr-banner"}
    \/ Contains(file, "main-concepts")

\* C4: no file with an excluded stem or with an excluded directory substring in
\* its path is ever in the collector's output, nor read by the extractor
C4_ExcludedNeverCollected ==
    /\ \A i \in 1..Len(results) : ~Excluded(results[i])
    /\ \A i \in 1..Len(reads) : ~Excluded(reads[i].file)

\* both versions were published while menu.md and a file under main-concepts,
\* each with valid front matter, were on disk
C4_Witness ==
    /\ Finished /\ Len(calls) = 2
    /\ {"content/v1/menu.md", "content/v1/main-concepts/a.md"} \subseteq DOMAIN disk0
    /\ \A f \in DOMAIN disk0 : disk0[f].page.metadata = [slug |-> "/docs/intro", title |-> "Intro"]

\* the collector has gone through the whole of the version being built
CollectorPassDone == cur # None /\ todo = {}

\* C5 as stated: after a collector pass over a version directory, any file in it
\* that exceeded 100,000 bytes has size exactly 100,000 (read of the markdown
\* files only, the ones the collector enumerates)
C5_AnyFileTruncated ==
    CollectorPassDone =>
        \A f \in DOMAIN disk :
            (IsUnder(f, cur[1]) /\ IsMarkdown(f) /\ disk0[f].st_size > 100000)
                => disk[f].st_size = 100000

\* C5 amended: after a collector pass, any file the collector put in its output
\* that exceeded 100,000 bytes has size exactly 100,000
C5_CollectedFileTruncated ==
    CollectorPassDone =>
        \A i \in 1..Len(results) :
            disk0[results[i]].st_size > 100000 => disk[results[i]].st_size = 100000

\* the collector's output holds a file of 250,000 bytes, now of 100,000
C5_Witness ==
    /\ CollectorPassDone
    /\ \E i \in 1..Len(results) :
          disk0[results[i]].st_size = 250000 /\ disk[results[i]].st_size = 100000

\* C6: a file of at most 100,000 bytes is never modified, and the only change the
\* pipeline makes to the file system is the truncation of a larger file
C6_OnlyTruncationWrites ==
    /\ DOMAIN disk = DOMAIN disk0
    /\ \A f \in DOMAIN disk0 :
          /\ disk0[f].st_size <= 100000 => disk[f] = disk0[f]
          /\ \/ disk[f] = disk0[f]
             \/ disk[f] = [st_size |-> 100000, page |-> disk0[f].page]

\* a file of exactly 100,000 bytes was collected and read unchanged, after
\* another file was truncated
C6_Witness ==
    /\ \E i \in 1..Len(reads) :
          disk0[reads[i].file].st_size = 100000 /\ disk[reads[i].file] = disk0[reads[i].file]
    /\ \E f \in DOMAIN disk : disk[f] # disk0[f]

----------------------------------------------------------------------------
(* End to end: C3 *)

ValidPage ==
    [ok |-> TRUE, metadata |-> [slug |-> "/docs/intro", title |-> "Intro"],
     content |-> "# Hello <span>world</span>\ntext"]

NoTitlePage ==
    [ok |-> TRUE, metadata |-> [slug |-> "/docs/intro"],
     content |-> "# Hello <span>world</span>\ntext"]

\* the version directory holds two files, both markdown files no exclusion rule
\* applies to: one valid, one without title
Scenario(version) ==
    LET files == {f \in DOMAIN disk0 : IsUnder(f, version)}
    IN /\ Cardinality(files) = 2
       /\ \A f \in files : IsMarkdown(f) /\ ~Excluded(f)
       /\ \E a, b \in files : disk0[a].page = ValidPage /\ disk0[b].page = NoTitlePage

\* the replace calls made for the version directories of the scenario
ScenarioCalls ==
    {i \in 1..Len(calls) :
        \E version \in {"content/v1", "content/v2"} :
            calls[i].index = "DOCS-" \o Name(version) /\ Scenario(version)}

\* C3 as stated: one document is published, its content containing Hellotext
C3_ContentHellotext ==
    \A i \in ScenarioCalls :
        /\ Len(calls[i].objects) = 1
        /\ calls[i].objects[1].objectID = "/docs/intro"
        /\ calls[i].objects[1].categories = <<"docs", "intro">>
        /\ calls[i].objects[1].description = None
        /\ Contains(calls[i].objects[1].content, "Hellotext")

\* C3 amended: one document is published, with objectID /docs/intro, categories
\* docs, intro, no description, and the content " Hello worldtext": the heading
\* marker, the tags <span> and </span> and the newline are removed, the text
\* between the tags is kept
C3_ContentKeepsTagText ==
    \A i \in ScenarioCalls :
        /\ Len(calls[i].objects) = 1
        /\ calls[i].objects[1].objectID = "/docs/intro"
        /\ calls[i].objects[1].title = "Intro"
        /\ calls[i].objects[1].categories = <<"docs", "intro">>
        /\ calls[i].objects[1].description = None
        /\ calls[i].objects[1].content = " Hello worldtext"

\* the version of the scenario was published, the file without title read first
C3_Witness ==
    /\ ScenarioCalls # {}
    /\ Len(warnings) = 1 /\ Len(reads) = 2 /\ reads[1].file = warnings[1].file

----------------------------------------------------------------------------
(* Publishing and ordering: C9, C10 *)

\* the documents of the files that give one, in the order of the files
RECURSIVE DocsOf(_)
DocsOf(files) ==
    IF files = <<>> THEN <<>>
    ELSE LET r == get_algolia_doc_from_file(files[1], disk[files[1]].page)
         IN (IF r.ret = None THEN <<>> ELSE r.ret) \o DocsOf(Tail(files))

CallsFor(log, version) == {i \in 1..Len(log) : log[i].index = "DOCS-" \o Name(version)}

\* C9: one replace-all-objects call per version directory, on the index
\* DOCS-<version name>, with the documents of the extracted files of that version
\* only, in collector order, none dropped as a duplicate and none reordered
C9_OneReplacePerVersion ==
    [][/\ calls' # calls =>
            /\ calls' = Append(calls, calls'[Len(calls')])
            /\ cur # None
            /\ CallsFor(calls, cur[1]) = {}
            /\ calls'[Len(calls')].index = "DOCS-" \o Name(cur[1])
            /\ calls'[Len(calls')].objects = DocsOf(results)
            /\ \A i \in 1..Len(results) : IsUnder(results[i], cur[1])
            /\ \A i, j \in 1..Len(results) : i # j => results[i] # results[j]
       /\ Finished' =>
            \A version \in {"content/v1", "content/v2"} :
                Cardinality(CallsFor(calls', version)) = 1]_vars

\* both versions were published; one payload holds the same document twice, the
\* one with a description first
C9_Witness ==
    /\ Finished /\ Len(calls) = 2
    /\ \E i \in 1..Len(calls) :
          /\ Len(calls[i].objects) = 2
          /\ calls[i].objects[1].description = <<"About">>
          /\ calls[i].objects[2].description = None
          /\ calls[i].objects[1].objectID = calls[i].objects[2].objectID

\* C10: in a version, every truncation comes before the first read of the
\* extractor, every read before the publish call, and a truncated file stays
\* truncated whatever fails afterwards
C10_TruncateThenReadThenPublish ==
    [][/\ ExtractStep =>
            /\ todo = {}
            /\ \A i \in 1..Len(results) : disk[results[i]].st_size <= 100000
            /\ disk' = disk
       /\ calls' # calls =>
            /\ todo = {} /\ k = Len(results) + 1
            /\ \A i \in 1..Len(results) :
                  \E j \in 1..Len(reads) : reads[j].file = results[i]
            /\ disk' = disk
       /\ \A f \in DOMAIN disk : disk[f] # disk0[f] => disk'[f] = disk[f]]_vars

\* the run failed after a file was truncated, and the file is still truncated
C10_Witness ==
    /\ failed
    /\ \E f \in DOMAIN disk : disk0[f].st_size > 100000 /\ disk[f].st_size = 100000
    /\ reads # <<>>

====
